---- MODULE Spec2Model ----
(***************************************************************************)
(* Club task management (app1.py): the workbook club_tasks.xlsx with its   *)
(* Tasks and Members sheets, the Streamlit sessions that read and rewrite  *)
(* it, and the hierarchy rules that decide who may assign, see, update and *)
(* delete tasks.                                                           *)
(*                                                                         *)
(* A script run of a session loads the workbook (load_data) and then       *)
(* handles at most one submitted form on the tables it loaded.  The load   *)
(* and the handling are separate steps, so runs of different sessions      *)
(* interleave the way two browser sessions of the app do.                  *)
(***************************************************************************)
EXTENDS Integers, Sequences, FiniteSets, TLC

\* ------------------------------------------------------------------ bounds
IdSpan == 3
SubRows == 2
MaxWrites == 3

\* --------------------------------------------------------- program values
TaskIdLow == 100000
TaskIdHigh == TaskIdLow + IdSpan - 1
TaskIdRange == TaskIdLow .. TaskIdHigh

Sessions == {1, 2}
Names == {"Alice", "Bob"}

CoreHead == "Core Head"
DomainHead == "Domain Head"
AssociateHead == "Associate Head"
JuniorHead == "Junior Head"
Roles == {CoreHead, DomainHead, AssociateHead, JuniorHead}

DefaultPassword == "password123"
Passwords == {DefaultPassword, "hunter2"}
RegisterPasswords == {"hunter2"}

\* a cell that holds no value (pandas NaN)
NaN == "NaN"
\* the filler of a placeholder row
Dash == "-"

NotStarted == "Not Started"
InProgress == "In Progress"
Done == "Done"
StatusOptions == {NotStarted, InProgress, Done}

TaskNameInputs == {"", " ", "Fix"}
AssignDescriptions == {"", "note"}
CompletionDescriptions == {"", " ", "shipped"}
PriorityInputs == {"Medium"}
DeadlineInputs == {"2026-01-01"}
DomainValues == {NaN, "Tech", "Design"}

\* ---------------------------------------------------------------- helpers
Range(s) == {s[i] : i \in 1 .. Len(s)}

\* str.strip() on the strings the forms can hold
strip(s) == IF s \in {"", " "} THEN "" ELSE s

\* pandas ==: a missing value equals nothing, itself included
PdEq(a, b) == a # NaN /\ b # NaN /\ a = b

\* a cell after to_excel and read_excel: the empty string comes back missing
Cell(v) == IF v = "" THEN NaN ELSE v

TaskRowToExcel(r) ==
    [TaskID |-> r.TaskID, TaskName |-> Cell(r.TaskName), AssignedTo |-> Cell(r.AssignedTo),
     Role |-> Cell(r.Role), Status |-> Cell(r.Status), Deadline |-> Cell(r.Deadline),
     Priority |-> Cell(r.Priority), Description |-> Cell(r.Description)]

\* DataFrame.to_excel of the Tasks sheet followed by read_excel
TasksToExcel(df) == [i \in 1 .. Len(df) |-> TaskRowToExcel(df[i])]

hash_password(password) ==
    CASE password = "password123" -> "ef92b778bafe771e89245b89ecbc08a44a4e166c06659911881f383d4473e94f"
      [] password = "hunter2" -> "f52fbd32b2b3b86ff88ef6c490628285f482af15ddcb29541f94bcf526a3f6c7"
      [] OTHER -> "e3b0c44298fc1c149afbf4c8996fb92427ae41e4649b934ca495991b7852b855"

verify_password(password, hashed) == hash_password(password) = hashed

\* str() of a cell: a missing value reads "nan"
str(v) == IF v = NaN THEN "nan" ELSE v

\* len(s) == 64 and every character a hex digit, on the stored values of the model
LooksLikeHash(s) == s \in {hash_password(p) : p \in Passwords \cup {""}}

\* the Members sheet: its optional columns and its rows
EmptyMembers == [cols |-> {"Password"}, rows |-> <<>>]
MemberNames(mdf) == {mdf.rows[i].Name : i \in 1 .. Len(mdf.rows)}
TaskIds(tdf) == {tdf[i].TaskID : i \in 1 .. Len(tdf)}

\* -------------------------------------------------------- get_subordinates
MembersWithRoles(mdf, allowed_roles) ==
    LET Keep(m) == m.Role \in allowed_roles
        sel == SelectSeq(mdf.rows, Keep)
    IN  [i \in 1 .. Len(sel) |-> sel[i].Name]

CoreHeadSubordinates_OthersOnly(mdf) == MembersWithRoles(mdf, {DomainHead})

CoreHeadSubordinates(mdf) == MembersWithRoles(mdf, {DomainHead, CoreHead})

DomainHeadSubordinates_AnyDomain(member_row, mdf) == MembersWithRoles(mdf, {AssociateHead})

DomainHeadSubordinates(member_row, mdf) ==
    IF "Domain" \in mdf.cols
    THEN LET domain == member_row[1].Domain
             Keep(m) == m.Role = AssociateHead /\ PdEq(m.Domain, domain)
             sel == SelectSeq(mdf.rows, Keep)
         IN  [i \in 1 .. Len(sel) |-> sel[i].Name]
    ELSE MembersWithRoles(mdf, {AssociateHead})

AssociateHeadSubordinates(member_name, mdf) ==
    IF "ReportsTo" \in mdf.cols
    THEN LET Keep(m) == m.Role = JuniorHead /\ PdEq(m.ReportsTo, member_name)
             sel == SelectSeq(mdf.rows, Keep)
         IN  [i \in 1 .. Len(sel) |-> sel[i].Name]
    ELSE MembersWithRoles(mdf, {JuniorHead})

get_subordinates(member_name, mdf) ==
    IF mdf.rows = <<>> THEN <<>>
    ELSE LET Mine(m) == m.Name = member_name
             member_row == SelectSeq(mdf.rows, Mine)
         IN  IF member_row = <<>> THEN <<>>
             ELSE LET member_role == member_row[1].Role
                  IN  CASE member_role = CoreHead -> CoreHeadSubordinates(mdf)
                        [] member_role = DomainHead -> DomainHeadSubordinates(member_row, mdf)
                        [] member_role = AssociateHead -> AssociateHeadSubordinates(member_name, mdf)
                        [] OTHER -> <<>>

\* ------------------------------------------------------- authenticate_user
authenticate_user(username, password, mdf) ==
    IF mdf.rows = <<>> THEN <<FALSE, NaN, NaN>>
    ELSE LET Mine(m) == m.Name = username
             user_row == SelectSeq(mdf.rows, Mine)
         IN  IF user_row = <<>> THEN <<FALSE, NaN, NaN>>
             ELSE IF "Password" \in mdf.cols
                  THEN LET stored_password == str(user_row[1].Password)
                       IN  IF LooksLikeHash(stored_password)
                           THEN IF hash_password(password) = stored_password
                                THEN <<TRUE, username, user_row[1].Role>>
                                ELSE <<FALSE, NaN, NaN>>
                           ELSE IF password = stored_password
                                THEN <<TRUE, username, user_row[1].Role>>
                                ELSE <<FALSE, NaN, NaN>>
                  ELSE IF password = DefaultPassword
                       THEN <<TRUE, username, user_row[1].Role>>
                       ELSE <<FALSE, NaN, NaN>>

\* --------------------------------------------------- generate_unique_taskid
generate_unique_taskid_Unchecked(tdf) == TaskIdRange

\* the values random.randint can end the loop with
generate_unique_taskid(tdf) ==
    IF tdf = <<>> THEN TaskIdRange
    ELSE LET existing_ids == TaskIds(tdf) IN TaskIdRange \ existing_ids

\* ------------------------------------------------------------------ state
VARIABLES
    fileTasks,      \* the Tasks sheet of club_tasks.xlsx (no rows while the file is missing)
    fileMembers,    \* the Members sheet of club_tasks.xlsx
    page,           \* st.session_state.page of each session
    authenticated,  \* st.session_state.authenticated
    user_name,      \* st.session_state.user_name
    user_role,      \* st.session_state.user_role
    pc,             \* "idle": between script runs; "loaded": the run has read the workbook
    tasks_df,       \* the tasks table the running script loaded
    members_df,     \* the members table the running script loaded
    last,           \* what the most recent step did and what it told the user
    writes          \* how many times the workbook has been saved

vars == <<fileTasks, fileMembers, page, authenticated, user_name, user_role, pc,
          tasks_df, members_df, last, writes>>

session == <<page, authenticated, user_name, user_role>>

\* arg: the submitted form fields (none when the form was not on the page)
EventArg(s, op, outcome, id, lost, arg) ==
    [sess |-> s, op |-> op, outcome |-> outcome, id |-> id, lost |-> lost,
     arg |-> arg, actor |-> NaN, subs |-> <<>>, ret |-> <<>>]

Event(s, op, outcome, id, lost) == EventArg(s, op, outcome, id, lost, <<>>)

\* rows stored since the writer loaded that are gone once its table replaces the sheet
Overwritten(stored, loaded, written) ==
    \E i \in 1 .. Len(stored) : stored[i] \notin Range(loaded) /\ stored[i] \notin Range(written)

update_tasks_sheet_Merge(df) ==
    LET Kept(t) == t.TaskID \notin TaskIds(df) IN TasksToExcel(df \o SelectSeq(fileTasks, Kept))

\* update_tasks_sheet: the Tasks sheet is replaced by df, the Members sheet is kept
update_tasks_sheet(df) == TasksToExcel(df)

\* load_data
load_data == <<fileTasks, fileMembers>>

EndRun(s) ==
    /\ pc' = [pc EXCEPT ![s] = "idle"]
    /\ tasks_df' = [tasks_df EXCEPT ![s] = <<>>]
    /\ members_df' = [members_df EXCEPT ![s] = EmptyMembers]

\* a step that saved the workbook is counted; the model follows the program up
\* to MaxWrites saves
Saved ==
    /\ writes' = IF last'.outcome = "ok" /\ last'.op \in {"registerMember", "createTask",
                                                          "updateStatus", "deleteTask"}
                 THEN writes + 1 ELSE writes
    /\ writes' <= MaxWrites

\* ------------------------------------------------ session state, lines 173-181
Init ==
    /\ fileTasks = <<>>
    /\ fileMembers = EmptyMembers
    /\ page = [s \in Sessions |-> "login"]
    /\ authenticated = [s \in Sessions |-> FALSE]
    /\ user_name = [s \in Sessions |-> NaN]
    /\ user_role = [s \in Sessions |-> NaN]
    /\ pc = [s \in Sessions |-> "idle"]
    /\ tasks_df = [s \in Sessions |-> <<>>]
    /\ members_df = [s \in Sessions |-> EmptyMembers]
    /\ last = Event(0, "init", "ok", 0, FALSE)
    /\ writes = 0

\* ------------------------------------------------------------ login page
show_login_page(s, username, password) ==
    /\ pc[s] = "idle" /\ page[s] # "register" /\ ~authenticated[s]
    /\ LET members == load_data[2] IN
       /\ members.rows # <<>>
       /\ username \in {""} \cup MemberNames(members)
       /\ IF username # "" /\ password # ""
          THEN LET res == authenticate_user(username, password, members) IN
               IF res[1]
               THEN /\ authenticated' = [authenticated EXCEPT ![s] = TRUE]
                    /\ user_name' = [user_name EXCEPT ![s] = res[2]]
                    /\ user_role' = [user_role EXCEPT ![s] = res[3]]
                    /\ page' = [page EXCEPT ![s] = "dashboard"]
                    /\ last' = EventArg(s, "authenticate", "ok", 0, FALSE, <<username>>)
               ELSE /\ UNCHANGED session
                    /\ last' = Event(s, "authenticate", "InvalidCredentials", 0, FALSE)
          ELSE /\ UNCHANGED session
               /\ last' = Event(s, "authenticate", "ValidationError", 0, FALSE)
    /\ UNCHANGED <<fileTasks, fileMembers, pc, tasks_df, members_df, writes>>

\* "Register as First User" / "Register as New User"
GoRegister(s) ==
    /\ pc[s] = "idle" /\ page[s] # "register" /\ ~authenticated[s]
    /\ page' = [page EXCEPT ![s] = "register"]
    /\ last' = Event(s, "navigate", "ok", 0, FALSE)
    /\ UNCHANGED <<fileTasks, fileMembers, authenticated, user_name, user_role, pc,
                   tasks_df, members_df, writes>>

\* --------------------------------------------------------- register page
RegisterLoad(s) ==
    /\ pc[s] = "idle" /\ page[s] = "register"
    /\ pc' = [pc EXCEPT ![s] = "loaded"]
    /\ members_df' = [members_df EXCEPT ![s] = load_data[2]]
    /\ last' = Event(s, "load", "ok", 0, FALSE)
    /\ UNCHANGED <<fileTasks, fileMembers, session, tasks_df, writes>>

BackToLogin(s) ==
    /\ pc[s] = "loaded" /\ page[s] = "register"
    /\ page' = [page EXCEPT ![s] = "login"]
    /\ EndRun(s)
    /\ last' = Event(s, "navigate", "ok", 0, FALSE)
    /\ UNCHANGED <<fileTasks, fileMembers, authenticated, user_name, user_role, writes>>

new_user(name, password, role) ==
    [Name |-> name, Role |-> role, Password |-> hash_password(password),
     Domain |-> NaN, ReportsTo |-> NaN]

placeholder_task(name, role, new_id) ==
    [TaskID |-> new_id, TaskName |-> Dash, AssignedTo |-> name, Role |-> role,
     Status |-> Dash, Deadline |-> Dash, Priority |-> Dash, Description |-> Dash]

register_user_NoCheck(name, password, role, mdf, stored_tasks, new_id) ==
    [success |-> TRUE,
     tasks |-> Append(stored_tasks, placeholder_task(name, role, new_id)),
     members |-> [cols |-> mdf.cols \cup {"Password"},
                  rows |-> Append(mdf.rows, new_user(name, password, role))]]

\* register_user: the tables it saves, or the refusal
register_user(name, password, role, mdf, stored_tasks, new_id) ==
    IF mdf.rows # <<>> /\ name \in MemberNames(mdf)
    THEN [success |-> FALSE, tasks |-> stored_tasks, members |-> mdf]
    ELSE [success |-> TRUE,
          tasks |-> Append(stored_tasks, placeholder_task(name, role, new_id)),
          members |-> IF mdf.rows = <<>>
                      THEN [cols |-> {"Password"}, rows |-> <<new_user(name, password, role)>>]
                      ELSE [cols |-> mdf.cols \cup {"Password"},
                            rows |-> Append(mdf.rows, new_user(name, password, role))]]

show_register_page(s, name, password, confirm_password, role) ==
    /\ pc[s] = "loaded" /\ page[s] = "register"
    /\ IF name = "" \/ password = "" \/ confirm_password = "" \/ password # confirm_password
       THEN /\ last' = Event(s, "registerMember", "ValidationError", 0, FALSE)
            /\ UNCHANGED <<fileTasks, fileMembers, page>>
       ELSE \E new_id \in generate_unique_taskid(fileTasks) :
            LET res == register_user(name, password, role, members_df[s], fileTasks, new_id) IN
            IF res.success
            THEN /\ fileTasks' = TasksToExcel(res.tasks)
                 /\ fileMembers' = res.members
                 /\ page' = [page EXCEPT ![s] = "login"]
                 /\ last' = EventArg(s, "registerMember", "ok", new_id, FALSE, <<name, role>>)
            ELSE /\ last' = EventArg(s, "registerMember", "Conflict", 0, FALSE, <<name>>)
                 /\ UNCHANGED <<fileTasks, fileMembers, page>>
    /\ EndRun(s)
    /\ Saved
    /\ UNCHANGED <<authenticated, user_name, user_role>>

\* -------------------------------------------------------------- dashboard
DashboardLoad_NoEmptyCheck(s) ==
    /\ pc[s] = "idle" /\ page[s] # "register" /\ authenticated[s]
    /\ pc' = [pc EXCEPT ![s] = "loaded"]
    /\ tasks_df' = [tasks_df EXCEPT ![s] = load_data[1]]
    /\ members_df' = [members_df EXCEPT ![s] = load_data[2]]
    /\ last' = Event(s, "load", "ok", 0, FALSE)
    /\ UNCHANGED <<fileTasks, fileMembers, session, writes>>

DashboardLoad_Ungated(s) ==
    /\ pc[s] = "idle" /\ page[s] # "register"
    /\ pc' = [pc EXCEPT ![s] = "loaded"]
    /\ tasks_df' = [tasks_df EXCEPT ![s] = load_data[1]]
    /\ members_df' = [members_df EXCEPT ![s] = load_data[2]]
    /\ last' = Event(s, "load", "ok", 0, FALSE)
    /\ UNCHANGED <<fileTasks, fileMembers, session, writes>>

\* show_dashboard, lines 282-286: the run ends at once when either table has no rows
DashboardLoad(s) ==
    /\ pc[s] = "idle" /\ page[s] # "register" /\ authenticated[s]
    /\ LET loaded == load_data IN
       IF loaded[1] = <<>> \/ loaded[2].rows = <<>>
       THEN /\ last' = Event(s, "load", "CannotLoad", 0, FALSE)
            /\ UNCHANGED <<pc, tasks_df, members_df>>
       ELSE /\ pc' = [pc EXCEPT ![s] = "loaded"]
            /\ tasks_df' = [tasks_df EXCEPT ![s] = loaded[1]]
            /\ members_df' = [members_df EXCEPT ![s] = loaded[2]]
            /\ last' = Event(s, "load", "ok", 0, FALSE)
    /\ UNCHANGED <<fileTasks, fileMembers, session, writes>>

Logout(s) ==
    /\ pc[s] = "loaded" /\ page[s] # "register" /\ authenticated[s]
    /\ authenticated' = [authenticated EXCEPT ![s] = FALSE]
    /\ user_name' = [user_name EXCEPT ![s] = NaN]
    /\ user_role' = [user_role EXCEPT ![s] = NaN]
    /\ page' = [page EXCEPT ![s] = "login"]
    /\ EndRun(s)
    /\ last' = Event(s, "logout", "ok", 0, FALSE)
    /\ UNCHANGED <<fileTasks, fileMembers, writes>>

view_df_Everything(name, role, tdf, mdf) == tdf

\* lines 303-331: the rows of the loaded table the user is shown
view_df(name, role, tdf, mdf) ==
    CASE role = CoreHead ->
            LET Keep(t) == t.Role \in {CoreHead, DomainHead} IN SelectSeq(tdf, Keep)
      [] role \in {DomainHead, AssociateHead} ->
            LET subordinates == get_subordinates(name, mdf)
                Keep(t) == PdEq(t.AssignedTo, name) \/ t.AssignedTo \in Range(subordinates)
            IN  SelectSeq(tdf, Keep)
      [] OTHER ->
            LET Keep(t) == PdEq(t.AssignedTo, name) IN SelectSeq(tdf, Keep)

\* lines 439-442: the rows offered by the status form
user_tasks(name, role, tdf, mdf) ==
    IF role = JuniorHead
    THEN LET Keep(t) == PdEq(t.AssignedTo, name) IN SelectSeq(view_df(name, role, tdf, mdf), Keep)
    ELSE view_df(name, role, tdf, mdf)

\* lines 382-393
can_assign(role) == role \in {CoreHead, DomainHead, AssociateHead}

assign_options_Everyone(name, role, mdf) ==
    [i \in 1 .. Len(mdf.rows) |-> mdf.rows[i].Name]

assign_options(name, role, mdf) ==
    IF can_assign(role) THEN get_subordinates(name, mdf) ELSE <<>>

can_delete_Associate(role) == role \in {CoreHead, DomainHead, AssociateHead}

\* line 475
can_delete(role) == role \in {CoreHead, DomainHead}

\* line 408
assignee_role(new_assignee, mdf) ==
    LET Mine(m) == m.Name = new_assignee IN SelectSeq(mdf.rows, Mine)[1].Role

new_task_data(new_task_id, new_task_name, new_assignee, role, new_deadline, new_priority, task_description) ==
    [TaskID |-> new_task_id, TaskName |-> new_task_name, AssignedTo |-> new_assignee,
     Role |-> role, Status |-> NotStarted, Deadline |-> new_deadline,
     Priority |-> new_priority, Description |-> task_description]

\* tab2, lines 380-435
AddTask(s, new_task_name, new_assignee, new_priority, new_deadline, task_description) ==
    /\ pc[s] = "loaded" /\ page[s] # "register" /\ authenticated[s]
    /\ LET subordinates == assign_options(user_name[s], user_role[s], members_df[s]) IN
       IF can_assign(user_role[s]) /\ subordinates # <<>>
       THEN /\ new_assignee \in Range(subordinates)
            /\ IF strip(new_task_name) # ""
               THEN \E new_task_id \in generate_unique_taskid(tasks_df[s]) :
                    LET row == new_task_data(new_task_id, new_task_name, new_assignee,
                                             assignee_role(new_assignee, members_df[s]),
                                             new_deadline, new_priority, task_description)
                        df == Append(tasks_df[s], row)
                    IN  /\ fileTasks' = update_tasks_sheet(df)
                        /\ last' = EventArg(s, "createTask", "ok", new_task_id,
                                            Overwritten(fileTasks, tasks_df[s], fileTasks'),
                                            <<new_task_name, new_assignee, task_description>>)
               ELSE /\ last' = Event(s, "createTask", "ValidationError", 0, FALSE)
                    /\ UNCHANGED fileTasks
       ELSE /\ last' = Event(s, "createTask", "PermissionDenied", 0, FALSE)
            /\ UNCHANGED fileTasks
    /\ EndRun(s)
    /\ Saved
    /\ UNCHANGED <<fileMembers, session>>

set_status_StatusOnly(tdf, task_to_update, new_status, completion_description) ==
    [i \in 1 .. Len(tdf) |->
        IF tdf[i].TaskID = task_to_update THEN [tdf[i] EXCEPT !.Status = new_status] ELSE tdf[i]]

\* lines 464-466: tasks_df.loc[tasks_df["TaskID"] == task_to_update, ...] = ...
set_status(tdf, task_to_update, new_status, completion_description) ==
    [i \in 1 .. Len(tdf) |->
        IF tdf[i].TaskID = task_to_update
        THEN [tdf[i] EXCEPT !.Status = new_status,
                            !.Description = IF new_status = Done
                                            THEN completion_description ELSE @]
        ELSE tdf[i]]

completion_missing_NoStrip(new_status, completion_description) ==
    new_status = Done /\ completion_description = ""

\* line 461
completion_missing(new_status, completion_description) ==
    new_status = Done /\ strip(completion_description) = ""

\* tab3, lines 437-471
UpdateStatus(s, task_to_update, new_status, completion_description) ==
    /\ pc[s] = "loaded" /\ page[s] # "register" /\ authenticated[s]
    /\ LET offered == user_tasks(user_name[s], user_role[s], tasks_df[s], members_df[s]) IN
       IF offered # <<>>
       THEN /\ task_to_update \in TaskIds(offered)
            /\ new_status # Done => completion_description = ""
            /\ IF completion_missing(new_status, completion_description)
               THEN /\ last' = EventArg(s, "updateStatus", "ValidationError", task_to_update,
                                        FALSE, <<new_status, completion_description>>)
                    /\ UNCHANGED fileTasks
               ELSE /\ fileTasks' = update_tasks_sheet(
                            set_status(tasks_df[s], task_to_update, new_status,
                                       completion_description))
                    /\ last' = EventArg(s, "updateStatus", "ok", task_to_update,
                                        Overwritten(fileTasks, tasks_df[s], fileTasks'),
                                        <<new_status, completion_description>>)
       ELSE /\ last' = Event(s, "updateStatus", "NotFound", 0, FALSE)
            /\ UNCHANGED fileTasks
    /\ EndRun(s)
    /\ Saved
    /\ UNCHANGED <<fileMembers, session>>

\* line 487: tasks_df[tasks_df["TaskID"] != task_to_delete]
drop_task(tdf, task_to_delete) ==
    LET Keep(t) == t.TaskID # task_to_delete IN SelectSeq(tdf, Keep)

\* tab4, lines 473-496
DeleteTask(s, task_to_delete, confirm_delete) ==
    /\ pc[s] = "loaded" /\ page[s] # "register" /\ authenticated[s]
    /\ LET offered == view_df(user_name[s], user_role[s], tasks_df[s], members_df[s]) IN
       IF can_delete(user_role[s])
       THEN IF offered # <<>>
            THEN /\ task_to_delete \in TaskIds(offered)
                 /\ IF confirm_delete
                    THEN /\ fileTasks' = update_tasks_sheet(drop_task(tasks_df[s], task_to_delete))
                         /\ last' = Event(s, "deleteTask", "ok", task_to_delete,
                                          Overwritten(fileTasks, tasks_df[s], fileTasks'))
                    ELSE /\ last' = Event(s, "deleteTask", "ValidationError", task_to_delete, FALSE)
                         /\ UNCHANGED fileTasks
            ELSE /\ last' = Event(s, "deleteTask", "NotFound", 0, FALSE)
                 /\ UNCHANGED fileTasks
       ELSE /\ last' = Event(s, "deleteTask", "PermissionDenied", 0, FALSE)
            /\ UNCHANGED fileTasks
    /\ EndRun(s)
    /\ Saved
    /\ UNCHANGED <<fileMembers, session>>

\* main, lines 632-638: one script run step of session s, its form inputs drawn
\* from the given sets
Step(s, roles, statuses, descriptions) ==
    \/ \E username \in Names \cup {""}, password \in Passwords \cup {""} :
           show_login_page(s, username, password)
    \/ GoRegister(s)
    \/ RegisterLoad(s)
    \/ BackToLogin(s)
    \/ \E name \in Names \cup {""}, password \in RegisterPasswords \cup {""},
          confirm_password \in Passwords \cup {""}, role \in roles :
           show_register_page(s, name, password, confirm_password, role)
    \/ DashboardLoad(s)
    \/ Logout(s)
    \/ \E new_task_name \in TaskNameInputs, new_assignee \in Names,
          new_priority \in PriorityInputs, new_deadline \in DeadlineInputs,
          task_description \in descriptions :
           AddTask(s, new_task_name, new_assignee, new_priority, new_deadline,
                   task_description)
    \/ \E task_to_update \in TaskIdRange, new_status \in statuses,
          completion_description \in CompletionDescriptions :
           UpdateStatus(s, task_to_update, new_status, completion_description)
    \/ \E task_to_delete \in TaskIdRange, confirm_delete \in BOOLEAN :
           DeleteTask(s, task_to_delete, confirm_delete)

\* one browser session: every operation is a complete load-and-handle cycle
Next == Step(1, Roles, StatusOptions, AssignDescriptions)

Spec == Init /\ [][Next]_vars

\* two browser sessions whose script runs interleave
RaceRoles == {CoreHead}
RaceStatuses == {Done}
RaceDescriptions == {""}

NextRace == \E s \in Sessions : Step(s, RaceRoles, RaceStatuses, RaceDescriptions)

SpecRace == Init /\ [][NextRace]_vars

\* two browser sessions, one script run at a time (the single writer the design
\* assumes): a run of session s starts and ends while the other session is between
\* runs
Turn(s) == \A t \in Sessions \ {s} : pc[t] = "idle"

TurnRoles == {CoreHead, JuniorHead}

NextTurns ==
    \/ \E s \in Sessions, username \in Names \cup {""}, password \in Passwords \cup {""} :
           Turn(s) /\ show_login_page(s, username, password)
    \/ \E s \in Sessions : Turn(s) /\ GoRegister(s)
    \/ \E s \in Sessions : Turn(s) /\ RegisterLoad(s)
    \/ \E s \in Sessions : Turn(s) /\ BackToLogin(s)
    \/ \E s \in Sessions, name \in Names \cup {""}, password \in RegisterPasswords \cup {""},
          confirm_password \in Passwords \cup {""}, role \in TurnRoles :
           Turn(s) /\ show_register_page(s, name, password, confirm_password, role)
    \/ \E s \in Sessions : Turn(s) /\ DashboardLoad(s)
    \/ \E s \in Sessions : Turn(s) /\ Logout(s)
    \/ \E s \in Sessions, new_task_name \in TaskNameInputs, new_assignee \in Names,
          new_priority \in PriorityInputs, new_deadline \in DeadlineInputs,
          task_description \in RaceDescriptions :
           Turn(s) /\ AddTask(s, new_task_name, new_assignee, new_priority, new_deadline,
                              task_description)
    \/ \E s \in Sessions, task_to_update \in TaskIdRange, new_status \in RaceStatuses,
          completion_description \in CompletionDescriptions :
           Turn(s) /\ UpdateStatus(s, task_to_update, new_status, completion_description)
    \/ \E s \in Sessions, task_to_delete \in TaskIdRange, confirm_delete \in BOOLEAN :
           Turn(s) /\ DeleteTask(s, task_to_delete, confirm_delete)

SpecTurns == Init /\ [][NextTurns]_vars

\* ------------------------------------------- get_subordinates on any workbook
\* Members sheets as a workbook can hold them: up to SubRows members, with or
\* without the Domain and ReportsTo columns; a cell of a column may be empty.
SubNames == <<"Alice", "Bob", "Carol">>
Outsider == "Zed"

MemberRow(name, cell) ==
    [Name |-> name, Role |-> cell[1], Password |-> hash_password(DefaultPassword),
     Domain |-> cell[2], ReportsTo |-> cell[3]]

\* the cells of a row under the sheet's columns
MemberCells(cols) ==
    Roles \X (IF "Domain" \in cols THEN DomainValues ELSE {NaN})
          \X (IF "ReportsTo" \in cols THEN {NaN, SubNames[1], SubNames[2]} ELSE {NaN})

\* the sheet that lists the members `listed` (indices of SubNames) in order
MemberTable(cols, listed, cells) ==
    LET Listed(i) == i \in listed
        order == SelectSeq(<<1, 2, 3>>, Listed)
    IN  [cols |-> cols \cup {"Password"},
         rows |-> [k \in 1 .. Len(order) |-> MemberRow(SubNames[order[k]], cells[order[k]])]]

InitSub ==
    /\ fileTasks = <<>>
    /\ \E cols \in SUBSET {"Domain", "ReportsTo"} :
       \E listed \in {l \in SUBSET {1, 2, 3} : Cardinality(l) <= SubRows} :
       \E cells \in [listed -> MemberCells(cols)] :
           fileMembers = MemberTable(cols, listed, cells)
    /\ page = [s \in Sessions |-> "dashboard"]
    /\ authenticated = [s \in Sessions |-> FALSE]
    /\ user_name = [s \in Sessions |-> NaN]
    /\ user_role = [s \in Sessions |-> NaN]
    /\ pc = [s \in Sessions |-> "idle"]
    /\ tasks_df = [s \in Sessions |-> <<>>]
    /\ members_df = [s \in Sessions |-> EmptyMembers]
    /\ last = Event(0, "init", "ok", 0, FALSE)
    /\ writes = 0

\* a call get_subordinates(member_name, members_df) on the loaded sheet
Resolve(member_name) ==
    /\ last' = [Event(0, "subordinatesOf", "ok", 0, FALSE) EXCEPT
                   !.actor = member_name,
                   !.subs = get_subordinates(member_name, load_data[2])]
    /\ UNCHANGED <<fileTasks, fileMembers, session, pc, tasks_df, members_df, writes>>

NextSub == \E member_name \in Range(SubNames) \cup {Outsider} : Resolve(member_name)

SpecSub == InitSub /\ [][NextSub]_vars

\* ------------------------------------------- authenticate_user on any workbook
\* Members sheets as a workbook can hold them: up to SubRows members, with or
\* without the Password column; with the column, a cell holds a SHA-256 digest,
\* a plain password, or nothing.
PasswordCells == {NaN} \cup Passwords \cup {hash_password(p) : p \in Passwords}
LoginPasswords == Passwords \cup {"", "nan"}

AuthRow(name, cell) ==
    [Name |-> name, Role |-> cell[1], Password |-> cell[2], Domain |-> NaN, ReportsTo |-> NaN]

AuthRoles == {CoreHead, JuniorHead}
AuthCells(cols) == AuthRoles \X (IF "Password" \in cols THEN PasswordCells ELSE {NaN})

AuthTable(cols, listed, cells) ==
    LET Listed(i) == i \in listed
        order == SelectSeq(<<1, 2, 3>>, Listed)
    IN  [cols |-> cols,
         rows |-> [k \in 1 .. Len(order) |-> AuthRow(SubNames[order[k]], cells[order[k]])]]

InitAuth ==
    /\ fileTasks = <<>>
    /\ \E cols \in SUBSET {"Password"} :
       \E listed \in {l \in SUBSET {1, 2, 3} : Cardinality(l) <= SubRows} :
       \E cells \in [listed -> AuthCells(cols)] :
           fileMembers = AuthTable(cols, listed, cells)
    /\ page = [s \in Sessions |-> "login"]
    /\ authenticated = [s \in Sessions |-> FALSE]
    /\ user_name = [s \in Sessions |-> NaN]
    /\ user_role = [s \in Sessions |-> NaN]
    /\ pc = [s \in Sessions |-> "idle"]
    /\ tasks_df = [s \in Sessions |-> <<>>]
    /\ members_df = [s \in Sessions |-> EmptyMembers]
    /\ last = Event(0, "init", "ok", 0, FALSE)
    /\ writes = 0

\* a call authenticate_user(username, password, members_df) on the loaded sheet
Authenticate(username, password) ==
    /\ last' = [EventArg(0, "authenticate_user", "ok", 0, FALSE, <<username, password>>)
                   EXCEPT !.ret = authenticate_user(username, password, load_data[2])]
    /\ UNCHANGED <<fileTasks, fileMembers, session, pc, tasks_df, members_df, writes>>

\* the calls, and registrations made on the register page of session 1
NextAuth ==
    \/ \E username \in Range(SubNames) \cup {Outsider}, password \in LoginPasswords :
           Authenticate(username, password)
    \/ GoRegister(1)
    \/ RegisterLoad(1)
    \/ \E name \in Names, password \in RegisterPasswords :
           show_register_page(1, name, password, password, JuniorHead)

SpecAuth == InitAuth /\ [][NextAuth]_vars

\* ----------------------------------------------------------------- claims
\* what the claims are read against
Rows(mdf) == Range(mdf.rows)
RoleOf(mdf, name) == (CHOOSE m \in Rows(mdf) : m.Name = name).Role
Present(v) == v # NaN /\ strip(v) # ""
HasUniqueIds(tdf) == \A i, j \in 1 .. Len(tdf) : tdf[i].TaskID = tdf[j].TaskID => i = j
Actor == last.sess
Actor2 == last'.sess

\* C1: a createTask step stores a task only for an actor whose role is Core Head,
\* Domain Head or Associate Head and an assignee among subordinatesOf(actor) on the
\* member table the run loaded: the stored table is then the loaded one plus that
\* one task.  A Junior Head's attempt is refused with PermissionDenied, and every
\* refused attempt leaves the task table as it was.
C1_CreateTaskAuthorized ==
    [][last'.op = "createTask" =>
        /\ last'.outcome = "ok" =>
              /\ user_role[Actor2] \in {CoreHead, DomainHead, AssociateHead}
              /\ last'.arg[2] \in Range(get_subordinates(user_name[Actor2], members_df[Actor2]))
              /\ Len(fileTasks') = Len(tasks_df[Actor2]) + 1
              /\ \A i \in 1 .. Len(tasks_df[Actor2]) : fileTasks'[i] = tasks_df[Actor2][i]
              /\ fileTasks'[Len(fileTasks')].AssignedTo = last'.arg[2]
              /\ fileTasks'[Len(fileTasks')].TaskID = last'.id
        /\ last'.outcome # "ok" => fileTasks' = fileTasks
        /\ user_role[Actor2] = JuniorHead => last'.outcome = "PermissionDenied"
    ]_vars

C1_Witness ==
    /\ last.op = "createTask" /\ last.outcome = "ok"
    /\ \E i \in 1 .. Len(fileTasks) :
          /\ fileTasks[i].TaskID = last.id
          /\ fileTasks[i].AssignedTo = last.arg[2]
          /\ fileTasks[i].Status = NotStarted

\* C2: a deleteTask step removes a task only for an actor whose role is Core Head
\* or Domain Head; for an Associate Head or a Junior Head it is refused with
\* PermissionDenied and the task table is unchanged.
C2_DeleteNeedsCoreOrDomain ==
    [][last'.op = "deleteTask" =>
        /\ fileTasks' # fileTasks =>
              /\ user_role[Actor2] \in {CoreHead, DomainHead}
              /\ last'.outcome = "ok"
        /\ user_role[Actor2] \in {AssociateHead, JuniorHead} =>
              /\ last'.outcome = "PermissionDenied"
              /\ fileTasks' = fileTasks
    ]_vars

C2_Witness ==
    /\ last.op = "deleteTask" /\ last.outcome = "PermissionDenied"
    /\ user_role[Actor] = AssociateHead
    /\ fileTasks # <<>>

\* C3: an updateStatus submitted with the new status Done and an empty (or blank)
\* description is refused with ValidationError whatever the actor's role and the
\* task, and nothing is written: the stored task table is unchanged.
C3_DoneNeedsDescription ==
    [][(/\ last'.op = "updateStatus"
        /\ last'.arg # <<>>
        /\ last'.arg[1] = Done
        /\ strip(last'.arg[2]) = "") =>
        /\ last'.outcome = "ValidationError"
        /\ fileTasks' = fileTasks
    ]_vars

C3_Witness ==
    /\ last.op = "updateStatus" /\ last.outcome = "ValidationError"
    /\ last.arg[1] = Done /\ last.arg[2] = " "
    /\ \E i \in 1 .. Len(fileTasks) : fileTasks[i].TaskID = last.id /\ fileTasks[i].Status # Done

SubordinatesC9(name, mdf, SameDomain(_, _)) ==
    IF name \notin MemberNames(mdf) THEN {}
    ELSE LET a == CHOOSE m \in Rows(mdf) : m.Name = name IN
         CASE a.Role = DomainHead ->
                 IF "Domain" \in mdf.cols
                 THEN {m.Name : m \in {x \in Rows(mdf) : x.Role = AssociateHead /\ SameDomain(a, x)}}
                 ELSE {m.Name : m \in {x \in Rows(mdf) : x.Role = AssociateHead}}
           [] a.Role = AssociateHead ->
                 IF "ReportsTo" \in mdf.cols
                 THEN {m.Name : m \in {x \in Rows(mdf) : x.Role = JuniorHead /\ x.ReportsTo = name}}
                 ELSE {m.Name : m \in {x \in Rows(mdf) : x.Role = JuniorHead}}
           [] OTHER -> {}

EqualDomain(a, m) == m.Domain = a.Domain
EqualSetDomain(a, m) == a.Domain # NaN /\ m.Domain = a.Domain

NotCoreHead(name, mdf) == name \in MemberNames(mdf) => RoleOf(mdf, name) # CoreHead

\* C9 as claimed: a Domain Head gets the Associate Heads whose domain equals the
\* actor's domain (all Associate Heads without a Domain column), an Associate Head
\* the Junior Heads whose ReportsTo is the actor's name (all Junior Heads without a
\* ReportsTo column), a Junior Head, an unknown actor or an empty table nothing.
C9_AsClaimed ==
    (last.op = "subordinatesOf" /\ NotCoreHead(last.actor, fileMembers)) =>
        Range(last.subs) = SubordinatesC9(last.actor, fileMembers, EqualDomain)

\* C9 amended: as claimed, except that with a Domain column a Domain Head gets the
\* Associate Heads whose domain cell is filled and equals the actor's own filled
\* domain cell; a Domain Head whose domain cell is empty gets nothing.
C9_Subordinates ==
    (last.op = "subordinatesOf" /\ NotCoreHead(last.actor, fileMembers)) =>
        Range(last.subs) = SubordinatesC9(last.actor, fileMembers, EqualSetDomain)

C9_Witness ==
    /\ last.op = "subordinatesOf" /\ last.actor = "Alice"
    /\ "Domain" \in fileMembers.cols
    /\ Len(fileMembers.rows) = 2
    /\ fileMembers.rows[1].Name = "Alice" /\ fileMembers.rows[1].Role = DomainHead
    /\ fileMembers.rows[1].Domain = "Tech"
    /\ fileMembers.rows[2].Role = AssociateHead /\ fileMembers.rows[2].Domain = "Tech"
    /\ last.subs = <<fileMembers.rows[2].Name>>

\* C4: no two rows of the stored task table ever have the same TaskID, and the id
\* a successful createTask or registerMember gives its new row is none of the ids
\* of the task table that operation loaded.
C4_TaskIdsUnique ==
    [][/\ HasUniqueIds(fileTasks')
       /\ (last'.op = "createTask" /\ last'.outcome = "ok") =>
             /\ last'.id \notin TaskIds(tasks_df[Actor2])
             /\ last'.id \in TaskIds(fileTasks')
       /\ (last'.op = "registerMember" /\ last'.outcome = "ok") =>
             /\ last'.id \notin TaskIds(fileTasks)
             /\ last'.id \in TaskIds(fileTasks')
    ]_vars

C4_Witness ==
    /\ last.op = "createTask" /\ last.outcome = "ok"
    /\ Len(fileTasks) = 2
    /\ fileTasks[2].TaskID = last.id
    /\ fileTasks[1].TaskID # fileTasks[2].TaskID

\* C5 as claimed: every stored task has a non-empty description exactly when its
\* status is Done.
C5_AsClaimed ==
    \A i \in 1 .. Len(fileTasks) :
        Present(fileTasks[i].Description) <=> fileTasks[i].Status = Done

\* C5 amended: every stored task whose status is Done has a non-empty description
\* (a task that is not Done may have one too: the "-" of a placeholder row, the
\* optional description given at creation, the note kept when a Done task is set
\* back to another status).
C5_DoneHasDescription ==
    \A i \in 1 .. Len(fileTasks) :
        fileTasks[i].Status = Done => Present(fileTasks[i].Description)

C5_Witness ==
    /\ last.op = "updateStatus" /\ last.outcome = "ok"
    /\ \E i \in 1 .. Len(fileTasks) :
          /\ fileTasks[i].TaskID = last.id
          /\ fileTasks[i].Status = Done
          /\ fileTasks[i].Description = "shipped"

\* C6: starting from an empty workbook, every stored task's AssignedTo names a
\* member of the stored member table, also when the script runs of two sessions
\* interleave.
C6_AssigneesAreMembers ==
    \A i \in 1 .. Len(fileTasks) : fileTasks[i].AssignedTo \in MemberNames(fileMembers)

\* C7: a successful createTask, updateStatus or deleteTask replaces the stored
\* task table by the table its own run loaded with its own change applied, whatever
\* was stored in between: every row stored afterwards is a row the run loaded or
\* the row of the task it created or updated.  So a change another session stored
\* and was told had succeeded can be gone after the write (C7_Witness).
C7_WholeTableReplaced ==
    [][(last'.op \in {"createTask", "updateStatus", "deleteTask"} /\ last'.outcome = "ok") =>
        /\ \A r \in Range(fileTasks') : r \in Range(tasks_df[Actor2]) \/ r.TaskID = last'.id
        /\ Len(fileTasks') = Len(tasks_df[Actor2])
                             + (IF last'.op = "createTask" THEN 1 ELSE 0)
                             - (IF last'.op = "deleteTask" THEN 1 ELSE 0)
    ]_vars

C7_Witness ==
    /\ last.op \in {"createTask", "updateStatus", "deleteTask"}
    /\ last.outcome = "ok"
    /\ last.lost

\* the visible set of C10, read on the stored tables
VisibleTo(s, t) ==
    CASE user_role[s] = CoreHead -> t.Role \in {CoreHead, DomainHead}
      [] user_role[s] \in {DomainHead, AssociateHead} ->
            \/ t.AssignedTo = user_name[s]
            \/ t.AssignedTo \in Range(get_subordinates(user_name[s], fileMembers))
      [] OTHER -> t.AssignedTo = user_name[s]

HasUniqueNames(mdf) ==
    \A i, j \in 1 .. Len(mdf.rows) : mdf.rows[i].Name = mdf.rows[j].Name => i = j

\* C11: a registerMember step whose form is complete and whose name is already in
\* the stored member table is refused with Conflict, and a refused step leaves
\* the member table and the task table as they were; a successful one adds
\* exactly one member, whose name was not stored before.  So no two stored
\* members ever share a name.
C11_DuplicateNameConflict ==
    [][/\ (last'.op = "registerMember" /\ last'.arg # <<>>) =>
             /\ last'.arg[1] \in MemberNames(fileMembers) <=> last'.outcome = "Conflict"
             /\ last'.outcome = "Conflict" =>
                   fileMembers' = fileMembers /\ fileTasks' = fileTasks
             /\ last'.outcome = "ok" =>
                   /\ Len(fileMembers'.rows) = Len(fileMembers.rows) + 1
                   /\ MemberNames(fileMembers') = MemberNames(fileMembers) \cup {last'.arg[1]}
       /\ HasUniqueNames(fileMembers')
    ]_vars

C11_Witness ==
    /\ last.op = "registerMember" /\ last.outcome = "Conflict"
    /\ last.arg[1] \in MemberNames(fileMembers)
    /\ Len(fileMembers.rows) = 2
    /\ HasUniqueNames(fileMembers)

\* the Password cell of the first row that carries the name
PasswordOf(mdf, name) ==
    LET Mine(m) == m.Name = name IN SelectSeq(mdf.rows, Mine)[1].Password

PasswordUnset(mdf, name) == "Password" \notin mdf.cols \/ PasswordOf(mdf, name) = NaN

\* C12: authenticate_user(name, "password123") returns (True, name, role of the
\* member) for every member of the table whose record has no password set (no
\* Password column, or an empty Password cell), and returns (False, None, None)
\* for a name that is not in the table, whatever the password.
C12_DefaultPassword ==
    last.op = "authenticate_user" =>
        /\ (/\ last.arg[1] \in MemberNames(fileMembers)
            /\ PasswordUnset(fileMembers, last.arg[1])
            /\ last.arg[2] = DefaultPassword) =>
               last.ret = <<TRUE, last.arg[1], RoleOf(fileMembers, last.arg[1])>>
        /\ last.arg[1] \notin MemberNames(fileMembers) => last.ret = <<FALSE, NaN, NaN>>

\* a step of the dashboard: the task view is rendered or a task form is handled
TaskOperation(e, s) ==
    \/ e.op \in {"createTask", "updateStatus", "deleteTask"}
    \/ e.op = "load" /\ page[s] # "register"

\* C13: a task view, createTask, updateStatus or deleteTask step happens only in
\* a session that is authenticated.  A session becomes authenticated only by its
\* own successful authenticate step, which sets its name to the submitted member
\* name and its role to that member's stored role.  A logout step leaves the
\* session unauthenticated with no name and no role, and a session that is not
\* authenticated has no name and no role, so no task operation occurs in it
\* until its next successful authenticate.
C13_AuthenticationGate ==
    [][/\ TaskOperation(last', Actor2) =>
             authenticated[Actor2] /\ user_name[Actor2] # NaN /\ user_role[Actor2] \in Roles
       /\ \A s \in Sessions :
             /\ (~authenticated[s] /\ authenticated'[s]) =>
                   /\ last'.op = "authenticate" /\ last'.outcome = "ok" /\ Actor2 = s
                   /\ last'.arg[1] \in MemberNames(fileMembers)
                   /\ user_name'[s] = last'.arg[1]
                   /\ user_role'[s] = RoleOf(fileMembers, last'.arg[1])
             /\ ~authenticated'[s] => user_name'[s] = NaN /\ user_role'[s] = NaN
             /\ (authenticated[s] /\ authenticated'[s]) =>
                   user_name'[s] = user_name[s] /\ user_role'[s] = user_role[s]
       /\ last'.op = "logout" =>
             authenticated[Actor2] /\ ~authenticated'[Actor2]
    ]_vars

\* a logout after the session has stored a task operation
C13_Witness ==
    /\ last.op = "logout"
    /\ ~authenticated[Actor] /\ user_name[Actor] = NaN /\ user_role[Actor] = NaN
    /\ page[Actor] = "login"
    /\ \E i \in 1 .. Len(fileTasks) : fileTasks[i].Status \in StatusOptions

TaskWrites == {"createTask", "updateStatus", "deleteTask"}

\* C14 as claimed: a dashboard run that loads an empty task table or an empty
\* member table ends at once, whatever the actor and role: it shows no form and
\* writes nothing.  So while the stored task table is empty no createTask,
\* updateStatus or deleteTask form is handled, also not for a Core Head (whose
\* subordinate set holds at least the actor), and the only step that makes the
\* stored task table non-empty again is a successful registerMember, which
\* stores the new member's placeholder task.
C14_AsClaimed ==
    [][/\ (/\ last'.op = "load" /\ page[Actor2] # "register"
           /\ (fileTasks = <<>> \/ fileMembers.rows = <<>>)) =>
             /\ last'.outcome = "CannotLoad"
             /\ pc'[Actor2] = "idle"
             /\ fileTasks' = fileTasks /\ fileMembers' = fileMembers
       /\ last'.op \in TaskWrites =>
             /\ tasks_df[Actor2] # <<>> /\ members_df[Actor2].rows # <<>>
             /\ fileTasks # <<>> /\ fileMembers.rows # <<>>
       /\ (fileTasks = <<>> /\ fileTasks' # <<>>) =>
             /\ last'.op = "registerMember" /\ last'.outcome = "ok"
             /\ Len(fileTasks') = 1
             /\ fileTasks'[1].AssignedTo = last'.arg[1]
             /\ fileTasks'[1].TaskName = Dash
    ]_vars

\* C14 amended: a dashboard run that loads an empty task table or an empty member
\* table ends at once, whatever the actor and role, and writes nothing; a
\* createTask, updateStatus or deleteTask form is handled only by a run that
\* loaded two non-empty tables.  A stored task table that is empty becomes
\* non-empty again only by a successful registerMember, which stores the new
\* member's placeholder task as its only row, or by the write of a dashboard run
\* that had loaded the table before its last task was deleted, which stores the
\* rows that run loaded with its own change.
C14_EmptyTableBlocksDashboard ==
    [][/\ (/\ last'.op = "load" /\ page[Actor2] # "register"
           /\ (fileTasks = <<>> \/ fileMembers.rows = <<>>)) =>
             /\ last'.outcome = "CannotLoad"
             /\ pc'[Actor2] = "idle"
             /\ fileTasks' = fileTasks /\ fileMembers' = fileMembers
       /\ last'.op \in TaskWrites =>
             tasks_df[Actor2] # <<>> /\ members_df[Actor2].rows # <<>>
       /\ (fileTasks = <<>> /\ fileTasks' # <<>>) =>
             \/ /\ last'.op = "registerMember" /\ last'.outcome = "ok"
                /\ Len(fileTasks') = 1
                /\ fileTasks'[1].AssignedTo = last'.arg[1]
                /\ fileTasks'[1].TaskName = Dash
             \/ /\ last'.op \in TaskWrites /\ last'.outcome = "ok"
                /\ tasks_df[Actor2] # <<>>
                /\ \A r \in Range(fileTasks') :
                      r \in Range(tasks_df[Actor2]) \/ r.TaskID = last'.id
    ]_vars

\* the last task was deleted by a Core Head who is still signed in, and the
\* registration of a second member has made the task table non-empty again
C14_Witness ==
    /\ last.op = "registerMember" /\ last.outcome = "ok"
    /\ Len(fileMembers.rows) = 2 /\ Len(fileTasks) = 1
    /\ fileTasks[1].AssignedTo = fileMembers.rows[2].Name
    /\ \E t \in Sessions \ {Actor} :
          /\ authenticated[t] /\ user_role[t] = CoreHead
          /\ user_name[t] = fileMembers.rows[1].Name
          /\ get_subordinates(user_name[t], fileMembers) # <<>>

====
